---- MODULE Spec2Model ----
(***************************************************************************)
(* Model of the todo-ai-app frontend: the App component's session state    *)
(* (frontend/src/App.tsx), the ApiService gateway (services/api.ts), the   *)
(* AddTaskForm / NaturalLanguageInput submit guards and the TaskList sort, *)
(* together with the remote task service they talk to.                     *)
(*                                                                         *)
(* A gateway call is a record in `calls`: it is issued by a handler        *)
(* ("pending"), settled by the remote service or by a transport failure    *)
(* ("resolved" / "rejected"), and then the continuation of the awaiting    *)
(* handler runs and removes it.  The continuation of handleToggleTask,     *)
(* handleDeleteTask and handleUpdateTask reads the `tasks` (and            *)
(* `editingTask`) bindings of the render in which the handler was called,  *)
(* so a call carries those values as `snap` and `edit`.                    *)
(***************************************************************************)
EXTENDS Integers, Sequences, FiniteSets, TLC

\* ---------------------------------------------------------------- bounds
\* number of gateway calls the user may cause after the mount effect
MaxCalls == 2
\* number of tasks the remote store may hold when the session starts
MaxInitTasks == 2
\* longest text typed into the title field / natural-language field
MaxTitleLen == 2
\* longest collection handed to TaskList in the stand-alone sort check
MaxSortLen == 3
\* largest creation instant in the stand-alone sort check
MaxSortTime == 2
\* number of gateway calls the user may cause in the sessions checked for progress
MaxLiveCalls == 1

\* ------------------------------------------------------------- constants
NoError == "null"
LoadError == "Failed to load tasks. Please check your connection and try again."
CreateError == "Failed to create task. Please try again."
NLError == "The AI failed to understand. Please try rephrasing or add the task manually."
UpdateError == "Failed to update task. Please try again."
DeleteError == "Failed to delete task. Please try again."

\* editingTask === null
NoTask == [id |-> 0, title |-> <<>>, completed |-> FALSE, created_at |-> 0]
NoHealth == [status |-> "", llm_service |-> ""]
DegradedHealth == [status |-> "error", llm_service |-> "unavailable"]
NoBody == [none |-> TRUE]

VARIABLES
    mounted,         \* the mount effect has run
    tasks,           \* useState<Task[]>([])
    isLoading,       \* useState(true)
    error,           \* useState<string | null>(null)
    editingTask,     \* useState<Task | null>(null)
    isProcessingNL,  \* useState(false)
    showAddForm,     \* useState(false)
    isLLMAvailable,  \* useState(true)
    displayed,       \* what the task pane shows: TaskList's sortedTasks
    calls,           \* gateway calls in flight, by issue number
    nextCall,        \* number of gateway calls issued so far
    store,           \* the remote service's tasks
    nextId,          \* the remote service's next id and clock reading
    confirmed,       \* history: id -> completed of the last successful response handled for it
    dialog           \* history: what window.confirm returned in the step just taken

vars == <<mounted, tasks, isLoading, error, editingTask, isProcessingNL, showAddForm,
          isLLMAvailable, displayed, calls, nextCall, store, nextId, confirmed, dialog>>

\* a step that shows no confirmation dialog
NoDialog == dialog' = "none"

\* ------------------------------------------------------- sequence helpers
Range(s) == {s[i] : i \in DOMAIN s}

Ids(s) == {s[i].id : i \in DOMAIN s}

\* tasks.find(t => t.id === id)
Find(s, id) ==
    IF id \in Ids(s)
    THEN s[CHOOSE i \in DOMAIN s : s[i].id = id /\ \A j \in 1..(i - 1) : s[j].id # id]
    ELSE NoTask

\* s.map(t => (t.id === id ? u : t))
MapReplace(s, id, u) == [i \in DOMAIN s |-> IF s[i].id = id THEN u ELSE s[i]]

\* s.filter(t => t.id !== id)
FilterOut(s, id) == SelectSeq(s, LAMBDA t : t.id # id)

\* ------------------------------------------------------------------ text
Chars == {" ", "a"}

Texts == UNION {[1..n -> Chars] : n \in 0..MaxTitleLen}

RECURSIVE TrimStart(_)
TrimStart(s) == IF s # <<>> /\ Head(s) = " " THEN TrimStart(Tail(s)) ELSE s

RECURSIVE TrimEnd(_)
TrimEnd(s) ==
    IF s # <<>> /\ s[Len(s)] = " " THEN TrimEnd(SubSeq(s, 1, Len(s) - 1)) ELSE s

\* String.prototype.trim
Trim(s) == TrimEnd(TrimStart(s))

\* ------------------------------------------------------- TaskList sorting
\* new Date(created_at).getTime(): created_at is modelled as the instant the
\* ISO-8601 string written by the service denotes
GetTime(created_at) == created_at

\* the comparator with the date operands swapped: oldest first
Compare_OldestFirst(a, b) ==
    IF a.completed # b.completed
    THEN (IF a.completed THEN 1 ELSE -1)
    ELSE GetTime(a.created_at) - GetTime(b.created_at)

\* the comparator handed to Array.prototype.sort
Compare(a, b) ==
    IF a.completed # b.completed
    THEN (IF a.completed THEN 1 ELSE -1)
    ELSE GetTime(b.created_at) - GetTime(a.created_at)

\* Array.prototype.sort is stable: x, which followed every element of the
\* sorted prefix s in the input, goes behind every element not greater than it
RECURSIVE InsertSorted(_, _)
InsertSorted(x, s) ==
    IF s = <<>> THEN <<x>>
    ELSE IF Compare(Head(s), x) <= 0
         THEN <<Head(s)>> \o InsertSorted(x, Tail(s))
         ELSE <<x>> \o s

RECURSIVE SortedTasks(_)
\* [...tasks].sort(comparator)
SortedTasks(ts) ==
    IF ts = <<>> THEN <<>>
    ELSE InsertSorted(ts[Len(ts)], SortedTasks(SubSeq(ts, 1, Len(ts) - 1)))

\* the task pane: the spinner while isLoading, TaskList's sortedTasks otherwise
Render == displayed' = IF isLoading' THEN <<>> ELSE SortedTasks(tasks')

\* ---------------------------------------------------------------- gateway
\* a call as issued by a handler
NewCall(kind, id, body, snap, edit) ==
    [kind |-> kind, status |-> "pending", transport |-> "none", id |-> id, body |-> body,
     snap |-> snap, edit |-> edit, resp |-> <<>>, health |-> NoHealth]

\* getTasks, createTask, createTaskFromNaturalLanguage, updateTask, deleteTask:
\* the awaited axios promise's data is returned, its rejection propagates
ApiCall(transportOk, data) ==
    [status |-> IF transportOk THEN "resolved" ELSE "rejected",
     resp |-> IF transportOk THEN data ELSE <<>>,
     health |-> NoHealth]

\* checkHealth without its try/catch: the rejection propagates
ApiCheckHealth_Rethrows(transportOk, data) ==
    [status |-> IF transportOk THEN "resolved" ELSE "rejected",
     resp |-> <<>>,
     health |-> IF transportOk THEN data ELSE NoHealth]

\* checkHealth: the rejection is caught and a "down" status returned
ApiCheckHealth(transportOk, data) ==
    [status |-> "resolved",
     resp |-> <<>>,
     health |-> IF transportOk THEN data ELSE DegradedHealth]

Settle(c, transportOk, r) ==
    calls' = [calls EXCEPT ![c] =
                [@ EXCEPT !.status = r.status, !.resp = r.resp, !.health = r.health,
                          !.transport = IF transportOk THEN "success" ELSE "failure"]]

Pending(c, kind) ==
    /\ c \in DOMAIN calls
    /\ calls[c].kind = kind
    /\ calls[c].status = "pending"

Settled(c, kind, status) ==
    /\ c \in DOMAIN calls
    /\ calls[c].kind = kind
    /\ calls[c].status = status

Issue(call) ==
    /\ calls' = (calls @@ ((nextCall + 1) :> call))
    /\ nextCall' = nextCall + 1

Finish(c) == calls' = [d \in DOMAIN calls \ {c} |-> calls[d]]

client == <<mounted, tasks, isLoading, error, editingTask, isProcessingNL, showAddForm,
            isLLMAvailable, displayed, confirmed>>

\* --------------------------------------------------------- remote service
\* GET /tasks
ServerList(c) ==
    /\ Pending(c, "getTasks")
    /\ Settle(c, TRUE, ApiCall(TRUE, store))
    /\ UNCHANGED <<client, nextCall, store, nextId>>
    /\ NoDialog

\* the Task the service stores for a POST: it assigns id and created_at
Created(title) ==
    [id |-> nextId, title |-> title, completed |-> FALSE, created_at |-> nextId]

\* POST /tasks
ServerCreate(c) ==
    /\ Pending(c, "createTask")
    /\ store' = Append(store, Created(calls[c].body.title))
    /\ nextId' = nextId + 1
    /\ Settle(c, TRUE, ApiCall(TRUE, <<Created(calls[c].body.title)>>))
    /\ UNCHANGED <<client, nextCall>>
    /\ NoDialog

\* POST /tasks/parse
ServerParse(c) ==
    /\ Pending(c, "createTaskFromNaturalLanguage")
    /\ store' = Append(store, Created(calls[c].body.text))
    /\ nextId' = nextId + 1
    /\ Settle(c, TRUE, ApiCall(TRUE, <<Created(calls[c].body.text)>>))
    /\ UNCHANGED <<client, nextCall>>
    /\ NoDialog

\* a partial patch: only the provided fields change
Patched(t, body) ==
    [id |-> t.id,
     title |-> IF "title" \in DOMAIN body THEN body.title ELSE t.title,
     completed |-> IF "completed" \in DOMAIN body THEN body.completed ELSE t.completed,
     created_at |-> t.created_at]

\* PUT /tasks/{id}; 404 when the id is not stored
ServerUpdate(c) ==
    /\ Pending(c, "updateTask")
    /\ LET id == calls[c].id
           found == id \in Ids(store)
           updated == Patched(Find(store, id), calls[c].body)
       IN /\ store' = IF found THEN MapReplace(store, id, updated) ELSE store
          /\ Settle(c, found, ApiCall(found, <<updated>>))
    /\ UNCHANGED <<client, nextCall, nextId>>
    /\ NoDialog

\* DELETE /tasks/{id}; 404 when the id is not stored
ServerDelete(c) ==
    /\ Pending(c, "deleteTask")
    /\ LET id == calls[c].id
           found == id \in Ids(store)
       IN /\ store' = IF found THEN FilterOut(store, id) ELSE store
          /\ Settle(c, found, ApiCall(found, <<>>))
    /\ UNCHANGED <<client, nextCall, nextId>>
    /\ NoDialog

\* GET /health: the service reports whether its language model is reachable
ServerHealth(c, llm_service) ==
    /\ Pending(c, "checkHealth")
    /\ Settle(c, TRUE, ApiCheckHealth(TRUE,
                [status |-> "healthy", llm_service |-> llm_service]))
    /\ UNCHANGED <<client, nextCall, store, nextId>>
    /\ NoDialog

\* the transport fails (timeout, no connection) or the service rejects the
\* request: the axios promise rejects and the store is not changed
CallFails(c) ==
    /\ c \in DOMAIN calls
    /\ calls[c].status = "pending"
    /\ Settle(c, FALSE, IF calls[c].kind = "checkHealth"
                        THEN ApiCheckHealth(FALSE, NoHealth)
                        ELSE ApiCall(FALSE, <<>>))
    /\ UNCHANGED <<client, nextCall, store, nextId>>
    /\ NoDialog

\* ------------------------------------------------------------------- App
server == <<store, nextId>>

CanIssue == nextCall < 2 + MaxCalls

\* history: the completion values a successful response carries, by id
Confirm(ts) ==
    confirmed' = [id \in DOMAIN confirmed \cup Ids(ts) |->
                    IF id \in Ids(ts) THEN Find(ts, id).completed ELSE confirmed[id]]

\* useEffect(() => { loadTasks(); checkHealth(); }): both run up to their await
Mount ==
    /\ ~mounted
    /\ mounted' = TRUE
    /\ isLoading' = TRUE
    /\ error' = NoError
    /\ calls' = (calls @@ ((nextCall + 1) :> NewCall("getTasks", 0, NoBody, <<>>, NoTask))
                       @@ ((nextCall + 2) :> NewCall("checkHealth", 0, NoBody, <<>>, NoTask)))
    /\ nextCall' = nextCall + 2
    /\ UNCHANGED <<tasks, editingTask, isProcessingNL, showAddForm, isLLMAvailable, confirmed>>
    /\ Render
    /\ NoDialog
    /\ UNCHANGED server

\* checkHealth reporting an unavailable service through the error banner
CheckHealthDone_SetsError(c) ==
    /\ c \in DOMAIN calls
    /\ calls[c].kind = "checkHealth"
    /\ calls[c].status # "pending"
    /\ isLLMAvailable' = IF calls[c].status = "resolved"
                         THEN calls[c].health.llm_service = "available"
                         ELSE FALSE
    /\ error' = IF isLLMAvailable' THEN error ELSE LoadError
    /\ Finish(c)
    /\ UNCHANGED <<mounted, tasks, isLoading, editingTask, isProcessingNL,
                   showAddForm, confirmed, nextCall>>
    /\ Render
    /\ NoDialog
    /\ UNCHANGED server

\* checkHealth after its await: the try branch for a resolved call, the catch
\* branch for a rejected one
CheckHealthDone(c) ==
    /\ c \in DOMAIN calls
    /\ calls[c].kind = "checkHealth"
    /\ calls[c].status # "pending"
    /\ isLLMAvailable' = IF calls[c].status = "resolved"
                         THEN calls[c].health.llm_service = "available"
                         ELSE FALSE
    /\ Finish(c)
    /\ UNCHANGED <<mounted, tasks, isLoading, error, editingTask, isProcessingNL,
                   showAddForm, confirmed, nextCall>>
    /\ Render
    /\ NoDialog
    /\ UNCHANGED server

\* loadTasks without its finally block on the try path
LoadTasksResolved_StaysLoading(c) ==
    /\ Settled(c, "getTasks", "resolved")
    /\ tasks' = calls[c].resp
    /\ Confirm(calls[c].resp)
    /\ Finish(c)
    /\ UNCHANGED <<mounted, isLoading, error, editingTask, isProcessingNL, showAddForm,
                   isLLMAvailable, nextCall>>
    /\ Render
    /\ NoDialog
    /\ UNCHANGED server

\* loadTasks after its await, try branch and finally
LoadTasksResolved(c) ==
    /\ Settled(c, "getTasks", "resolved")
    /\ tasks' = calls[c].resp
    /\ isLoading' = FALSE
    /\ Confirm(calls[c].resp)
    /\ Finish(c)
    /\ UNCHANGED <<mounted, error, editingTask, isProcessingNL, showAddForm,
                   isLLMAvailable, nextCall>>
    /\ Render
    /\ NoDialog
    /\ UNCHANGED server

\* the catch branch of loadTasks also emptying the collection
LoadTasksRejected_ClearsTasks(c) ==
    /\ Settled(c, "getTasks", "rejected")
    /\ error' = LoadError
    /\ isLoading' = FALSE
    /\ tasks' = <<>>
    /\ Finish(c)
    /\ UNCHANGED <<mounted, editingTask, isProcessingNL, showAddForm,
                   isLLMAvailable, confirmed, nextCall>>
    /\ Render
    /\ NoDialog
    /\ UNCHANGED server

\* loadTasks after its await, catch branch and finally
LoadTasksRejected(c) ==
    /\ Settled(c, "getTasks", "rejected")
    /\ error' = LoadError
    /\ isLoading' = FALSE
    /\ Finish(c)
    /\ UNCHANGED <<mounted, tasks, editingTask, isProcessingNL, showAddForm,
                   isLLMAvailable, confirmed, nextCall>>
    /\ Render
    /\ NoDialog
    /\ UNCHANGED server

\* the "+ Add a Task Manually" button, shown while the form is hidden
OpenAddForm ==
    /\ mounted
    /\ ~showAddForm
    /\ editingTask' = NoTask
    /\ showAddForm' = TRUE
    /\ UNCHANGED <<mounted, tasks, isLoading, error, isProcessingNL, isLLMAvailable,
                   confirmed, calls, nextCall>>
    /\ Render
    /\ NoDialog
    /\ UNCHANGED server

\* the validation without the trim: task.title is not empty
TitleValid_Untrimmed(title) == title # <<>>

\* AddTaskForm.handleSubmit's validation: task.title.trim() is not empty
TitleValid(title) == Trim(title) # <<>>

\* setTasks(prevTasks => [...prevTasks, newTask])
Prepend_Append(newTask, prevTasks) == prevTasks \o <<newTask>>

\* setTasks(prevTasks => [newTask, ...prevTasks])
Prepend(newTask, prevTasks) == <<newTask>> \o prevTasks

\* handleCreateTask without its setError(null)
SubmitCreate_KeepsError(title) ==
    /\ mounted
    /\ showAddForm
    /\ editingTask = NoTask
    /\ IF TitleValid(title)
       THEN /\ CanIssue
            /\ Issue(NewCall("createTask", 0, [title |-> Trim(title)], <<>>, NoTask))
       ELSE UNCHANGED <<calls, nextCall>>
    /\ UNCHANGED <<mounted, tasks, isLoading, error, editingTask, isProcessingNL,
                   showAddForm, isLLMAvailable, confirmed>>
    /\ Render
    /\ NoDialog
    /\ UNCHANGED server

\* AddTaskForm.handleSubmit with onSubmit = handleCreateTask, up to the await
SubmitCreate(title) ==
    /\ mounted
    /\ showAddForm
    /\ editingTask = NoTask
    /\ IF TitleValid(title)
       THEN /\ CanIssue
            /\ error' = NoError
            /\ Issue(NewCall("createTask", 0, [title |-> Trim(title)], <<>>, NoTask))
       ELSE UNCHANGED <<error, calls, nextCall>>
    /\ UNCHANGED <<mounted, tasks, isLoading, editingTask, isProcessingNL, showAddForm,
                   isLLMAvailable, confirmed>>
    /\ Render
    /\ NoDialog
    /\ UNCHANGED server

\* handleCreateTask after its await, try branch
CreateTaskResolved(c) ==
    /\ Settled(c, "createTask", "resolved")
    /\ tasks' = Prepend(calls[c].resp[1], tasks)
    /\ showAddForm' = FALSE
    /\ Confirm(calls[c].resp)
    /\ Finish(c)
    /\ UNCHANGED <<mounted, isLoading, error, editingTask, isProcessingNL,
                   isLLMAvailable, nextCall>>
    /\ Render
    /\ NoDialog
    /\ UNCHANGED server

\* the catch branch of handleCreateTask sending the request once more
CreateTaskRejected_Retries(c) ==
    /\ Settled(c, "createTask", "rejected")
    /\ error' = CreateError
    /\ calls' = ([d \in DOMAIN calls \ {c} |-> calls[d]]
                   @@ ((nextCall + 1) :> NewCall("createTask", 0, calls[c].body, <<>>, NoTask)))
    /\ nextCall' = nextCall + 1
    /\ UNCHANGED <<mounted, tasks, isLoading, editingTask, isProcessingNL, showAddForm,
                   isLLMAvailable, confirmed>>
    /\ Render
    /\ NoDialog
    /\ UNCHANGED server

\* handleCreateTask after its await, catch branch
CreateTaskRejected(c) ==
    /\ Settled(c, "createTask", "rejected")
    /\ error' = CreateError
    /\ Finish(c)
    /\ UNCHANGED <<mounted, tasks, isLoading, editingTask, isProcessingNL, showAddForm,
                   isLLMAvailable, confirmed, nextCall>>
    /\ Render
    /\ NoDialog
    /\ UNCHANGED server

\* NaturalLanguageInput.handleSubmit testing and sending the text as typed
SubmitNaturalLanguage_SendsRaw(text) ==
    /\ mounted
    /\ IF text # <<>> /\ ~isProcessingNL
       THEN /\ CanIssue
            /\ isProcessingNL' = TRUE
            /\ error' = NoError
            /\ Issue(NewCall("createTaskFromNaturalLanguage", 0, [text |-> text],
                             <<>>, NoTask))
       ELSE UNCHANGED <<isProcessingNL, error, calls, nextCall>>
    /\ UNCHANGED <<mounted, tasks, isLoading, editingTask, showAddForm, isLLMAvailable,
                   confirmed>>
    /\ Render
    /\ NoDialog
    /\ UNCHANGED server

\* NaturalLanguageInput.handleSubmit and handleNaturalLanguageCreate up to the await
SubmitNaturalLanguage(text) ==
    /\ mounted
    /\ IF Trim(text) # <<>> /\ ~isProcessingNL
       THEN /\ CanIssue
            /\ isProcessingNL' = TRUE
            /\ error' = NoError
            /\ Issue(NewCall("createTaskFromNaturalLanguage", 0, [text |-> Trim(text)],
                             <<>>, NoTask))
       ELSE UNCHANGED <<isProcessingNL, error, calls, nextCall>>
    /\ UNCHANGED <<mounted, tasks, isLoading, editingTask, showAddForm, isLLMAvailable,
                   confirmed>>
    /\ Render
    /\ NoDialog
    /\ UNCHANGED server

\* handleNaturalLanguageCreate without its finally block on the try path
NaturalLanguageResolved_StaysBusy(c) ==
    /\ Settled(c, "createTaskFromNaturalLanguage", "resolved")
    /\ tasks' = Prepend(calls[c].resp[1], tasks)
    /\ Confirm(calls[c].resp)
    /\ Finish(c)
    /\ UNCHANGED <<mounted, isLoading, error, editingTask, isProcessingNL, showAddForm,
                   isLLMAvailable, nextCall>>
    /\ Render
    /\ NoDialog
    /\ UNCHANGED server

\* handleNaturalLanguageCreate after its await, try branch and finally
NaturalLanguageResolved(c) ==
    /\ Settled(c, "createTaskFromNaturalLanguage", "resolved")
    /\ tasks' = Prepend(calls[c].resp[1], tasks)
    /\ isProcessingNL' = FALSE
    /\ Confirm(calls[c].resp)
    /\ Finish(c)
    /\ UNCHANGED <<mounted, isLoading, error, editingTask, showAddForm,
                   isLLMAvailable, nextCall>>
    /\ Render
    /\ NoDialog
    /\ UNCHANGED server

\* handleNaturalLanguageCreate without its finally block on the catch path
NaturalLanguageRejected_StaysBusy(c) ==
    /\ Settled(c, "createTaskFromNaturalLanguage", "rejected")
    /\ error' = NLError
    /\ Finish(c)
    /\ UNCHANGED <<mounted, tasks, isLoading, editingTask, isProcessingNL, showAddForm,
                   isLLMAvailable, confirmed, nextCall>>
    /\ Render
    /\ NoDialog
    /\ UNCHANGED server

\* handleNaturalLanguageCreate after its await, catch branch and finally
NaturalLanguageRejected(c) ==
    /\ Settled(c, "createTaskFromNaturalLanguage", "rejected")
    /\ error' = NLError
    /\ isProcessingNL' = FALSE
    /\ Finish(c)
    /\ UNCHANGED <<mounted, tasks, isLoading, editingTask, showAddForm,
                   isLLMAvailable, confirmed, nextCall>>
    /\ Render
    /\ NoDialog
    /\ UNCHANGED server

\* ids the remote service can have assigned within the bounds
TaskIds == 1..(MaxInitTasks + MaxCalls)

\* handleToggleTask sending the task's current flag instead of its negation
ToggleTask_SendsCurrentFlag(id) ==
    /\ mounted
    /\ id \in Ids(displayed) \/ id \notin Ids(tasks)
    /\ IF id \in Ids(tasks)
       THEN /\ CanIssue
            /\ error' = NoError
            /\ Issue(NewCall("updateTask", id,
                             [completed |-> Find(tasks, id).completed], tasks, NoTask))
       ELSE UNCHANGED <<error, calls, nextCall>>
    /\ UNCHANGED <<mounted, tasks, isLoading, editingTask, isProcessingNL, showAddForm,
                   isLLMAvailable, confirmed>>
    /\ Render
    /\ NoDialog
    /\ UNCHANGED server

\* handleToggleTask without the lookup: the call is issued for any id, asking
\* for completed = true when the task is unknown
ToggleTask_NoLookup(id) ==
    /\ mounted
    /\ id \in Ids(displayed) \/ id \notin Ids(tasks)
    /\ CanIssue
    /\ error' = NoError
    /\ Issue(NewCall("updateTask", id,
                     [completed |-> ~Find(tasks, id).completed], tasks, NoTask))
    /\ UNCHANGED <<mounted, tasks, isLoading, editingTask, isProcessingNL, showAddForm,
                   isLLMAvailable, confirmed>>
    /\ Render
    /\ NoDialog
    /\ UNCHANGED server

\* TaskItem's checkbox calls onToggle(task.id) for a task of the displayed list;
\* handleToggleTask up to its await, with the early return for an unknown id
ToggleTask(id) ==
    /\ mounted
    /\ id \in Ids(displayed) \/ id \notin Ids(tasks)
    /\ IF id \in Ids(tasks)
       THEN /\ CanIssue
            /\ error' = NoError
            /\ Issue(NewCall("updateTask", id,
                             [completed |-> ~Find(tasks, id).completed], tasks, NoTask))
       ELSE UNCHANGED <<error, calls, nextCall>>
    /\ UNCHANGED <<mounted, tasks, isLoading, editingTask, isProcessingNL, showAddForm,
                   isLLMAvailable, confirmed>>
    /\ Render
    /\ NoDialog
    /\ UNCHANGED server

\* the try branch of handleToggleTask also refreshing the edit target when it
\* is the toggled task
ToggleTaskResolved_RefreshesEdit(c) ==
    /\ Settled(c, "updateTask", "resolved")
    /\ calls[c].edit = NoTask
    /\ tasks' = MapReplace(calls[c].snap, calls[c].id, calls[c].resp[1])
    /\ editingTask' = IF editingTask # NoTask /\ editingTask.id = calls[c].id
                      THEN calls[c].resp[1]
                      ELSE editingTask
    /\ Confirm(calls[c].resp)
    /\ Finish(c)
    /\ UNCHANGED <<mounted, isLoading, error, isProcessingNL, showAddForm,
                   isLLMAvailable, nextCall>>
    /\ Render
    /\ NoDialog
    /\ UNCHANGED server

\* handleToggleTask after its await, try branch: `tasks` is the binding of the
\* render in which the handler was called
ToggleTaskResolved(c) ==
    /\ Settled(c, "updateTask", "resolved")
    /\ calls[c].edit = NoTask
    /\ tasks' = MapReplace(calls[c].snap, calls[c].id, calls[c].resp[1])
    /\ Confirm(calls[c].resp)
    /\ Finish(c)
    /\ UNCHANGED <<mounted, isLoading, error, editingTask, isProcessingNL, showAddForm,
                   isLLMAvailable, nextCall>>
    /\ Render
    /\ NoDialog
    /\ UNCHANGED server

\* the catch branch of handleToggleTask applying the requested flip locally
ToggleTaskRejected_AppliesFlip(c) ==
    /\ Settled(c, "updateTask", "rejected")
    /\ calls[c].edit = NoTask
    /\ error' = UpdateError
    /\ tasks' = [i \in DOMAIN tasks |->
                    IF tasks[i].id = calls[c].id
                    THEN [tasks[i] EXCEPT !.completed = calls[c].body.completed]
                    ELSE tasks[i]]
    /\ Finish(c)
    /\ UNCHANGED <<mounted, isLoading, editingTask, isProcessingNL, showAddForm,
                   isLLMAvailable, confirmed, nextCall>>
    /\ Render
    /\ NoDialog
    /\ UNCHANGED server

\* handleToggleTask after its await, catch branch
ToggleTaskRejected(c) ==
    /\ Settled(c, "updateTask", "rejected")
    /\ calls[c].edit = NoTask
    /\ error' = UpdateError
    /\ Finish(c)
    /\ UNCHANGED <<mounted, tasks, isLoading, editingTask, isProcessingNL, showAddForm,
                   isLLMAvailable, confirmed, nextCall>>
    /\ Render
    /\ NoDialog
    /\ UNCHANGED server

\* handleDeleteTask without the early return: the answer is asked for and ignored
DeleteTask_IgnoresAnswer(id, userConfirms) ==
    /\ mounted
    /\ id \in Ids(displayed)
    /\ CanIssue
    /\ dialog' = IF userConfirms THEN "accepted" ELSE "declined"
    /\ error' = NoError
    /\ Issue(NewCall("deleteTask", id, NoBody, tasks, NoTask))
    /\ UNCHANGED <<mounted, tasks, isLoading, editingTask, isProcessingNL, showAddForm,
                   isLLMAvailable, confirmed>>
    /\ Render
    /\ UNCHANGED server

\* TaskItem's delete button calls onDelete(task.id); handleDeleteTask up to its
\* await, with the early return when window.confirm is declined
DeleteTask(id, userConfirms) ==
    /\ mounted
    /\ id \in Ids(displayed)
    /\ IF userConfirms
       THEN /\ CanIssue
            /\ dialog' = "accepted"
            /\ error' = NoError
            /\ Issue(NewCall("deleteTask", id, NoBody, tasks, NoTask))
       ELSE /\ dialog' = "declined"
            /\ UNCHANGED <<error, calls, nextCall>>
    /\ UNCHANGED <<mounted, tasks, isLoading, editingTask, isProcessingNL, showAddForm,
                   isLLMAvailable, confirmed>>
    /\ Render
    /\ UNCHANGED server

\* handleDeleteTask after its await, try branch
DeleteTaskResolved(c) ==
    /\ Settled(c, "deleteTask", "resolved")
    /\ tasks' = FilterOut(calls[c].snap, calls[c].id)
    /\ Finish(c)
    /\ UNCHANGED <<mounted, isLoading, error, editingTask, isProcessingNL, showAddForm,
                   isLLMAvailable, confirmed, nextCall>>
    /\ Render
    /\ NoDialog
    /\ UNCHANGED server

\* the catch branch of handleDeleteTask reusing the update handlers' message
DeleteTaskRejected_UpdateMessage(c) ==
    /\ Settled(c, "deleteTask", "rejected")
    /\ error' = UpdateError
    /\ Finish(c)
    /\ UNCHANGED <<mounted, tasks, isLoading, editingTask, isProcessingNL, showAddForm,
                   isLLMAvailable, confirmed, nextCall>>
    /\ Render
    /\ NoDialog
    /\ UNCHANGED server

\* handleDeleteTask after its await, catch branch
DeleteTaskRejected(c) ==
    /\ Settled(c, "deleteTask", "rejected")
    /\ error' = DeleteError
    /\ Finish(c)
    /\ UNCHANGED <<mounted, tasks, isLoading, editingTask, isProcessingNL, showAddForm,
                   isLLMAvailable, confirmed, nextCall>>
    /\ Render
    /\ NoDialog
    /\ UNCHANGED server

\* TaskItem's edit button calls onEdit(task): handleEditTask
EditTask(task) ==
    /\ mounted
    /\ task \in Range(displayed)
    /\ editingTask' = task
    /\ showAddForm' = TRUE
    /\ UNCHANGED <<mounted, tasks, isLoading, error, isProcessingNL, isLLMAvailable,
                   confirmed, calls, nextCall>>
    /\ Render
    /\ NoDialog
    /\ UNCHANGED server

\* AddTaskForm.handleSubmit with onSubmit = handleUpdateTask, up to the await
SubmitUpdate(title) ==
    /\ mounted
    /\ showAddForm
    /\ editingTask # NoTask
    /\ IF TitleValid(title)
       THEN /\ CanIssue
            /\ error' = NoError
            /\ Issue(NewCall("updateTask", editingTask.id, [title |-> Trim(title)],
                             tasks, editingTask))
       ELSE UNCHANGED <<error, calls, nextCall>>
    /\ UNCHANGED <<mounted, tasks, isLoading, editingTask, isProcessingNL, showAddForm,
                   isLLMAvailable, confirmed>>
    /\ Render
    /\ NoDialog
    /\ UNCHANGED server

\* handleUpdateTask after its await, try branch: `tasks` and `editingTask` are
\* the bindings of the render in which the form was submitted
UpdateTaskResolved(c) ==
    /\ Settled(c, "updateTask", "resolved")
    /\ calls[c].edit # NoTask
    /\ tasks' = MapReplace(calls[c].snap, calls[c].edit.id, calls[c].resp[1])
    /\ editingTask' = NoTask
    /\ showAddForm' = FALSE
    /\ Confirm(calls[c].resp)
    /\ Finish(c)
    /\ UNCHANGED <<mounted, isLoading, error, isProcessingNL, isLLMAvailable, nextCall>>
    /\ Render
    /\ NoDialog
    /\ UNCHANGED server

\* the catch branch of handleUpdateTask also ending the edit session
UpdateTaskRejected_ClosesForm(c) ==
    /\ Settled(c, "updateTask", "rejected")
    /\ calls[c].edit # NoTask
    /\ error' = UpdateError
    /\ editingTask' = NoTask
    /\ showAddForm' = FALSE
    /\ Finish(c)
    /\ UNCHANGED <<mounted, tasks, isLoading, isProcessingNL, isLLMAvailable, confirmed,
                   nextCall>>
    /\ Render
    /\ NoDialog
    /\ UNCHANGED server

\* handleUpdateTask after its await, catch branch
UpdateTaskRejected(c) ==
    /\ Settled(c, "updateTask", "rejected")
    /\ calls[c].edit # NoTask
    /\ error' = UpdateError
    /\ Finish(c)
    /\ UNCHANGED <<mounted, tasks, isLoading, editingTask, isProcessingNL, showAddForm,
                   isLLMAvailable, confirmed, nextCall>>
    /\ Render
    /\ NoDialog
    /\ UNCHANGED server

\* the form's Cancel button: handleCancelEdit
CancelEdit ==
    /\ mounted
    /\ showAddForm
    /\ editingTask' = NoTask
    /\ showAddForm' = FALSE
    /\ UNCHANGED <<mounted, tasks, isLoading, error, isProcessingNL, isLLMAvailable,
                   confirmed, calls, nextCall>>
    /\ Render
    /\ NoDialog
    /\ UNCHANGED server

\* the close button also probing the service's health again
DismissError_Reprobes ==
    /\ error # NoError
    /\ CanIssue
    /\ error' = NoError
    /\ Issue(NewCall("checkHealth", 0, NoBody, <<>>, NoTask))
    /\ UNCHANGED <<mounted, tasks, isLoading, editingTask, isProcessingNL, showAddForm,
                   isLLMAvailable, confirmed>>
    /\ Render
    /\ NoDialog
    /\ UNCHANGED server

\* the error banner's close button: setError(null)
DismissError ==
    /\ error # NoError
    /\ error' = NoError
    /\ UNCHANGED <<mounted, tasks, isLoading, editingTask, isProcessingNL, showAddForm,
                   isLLMAvailable, confirmed, calls, nextCall>>
    /\ Render
    /\ NoDialog
    /\ UNCHANGED server

\* ------------------------------------------------------------ the session
\* the tasks the remote store holds when the session starts
InitialTask(i) ==
    [id |-> i, title |-> <<"a">>, completed |-> (i % 2 = 0), created_at |-> i]

InitialStores == {[i \in 1..n |-> InitialTask(i)] : n \in 0..MaxInitTasks}

Init ==
    /\ mounted = FALSE
    /\ tasks = <<>>
    /\ isLoading = TRUE
    /\ error = NoError
    /\ editingTask = NoTask
    /\ isProcessingNL = FALSE
    /\ showAddForm = FALSE
    /\ isLLMAvailable = TRUE
    /\ displayed = <<>>
    /\ calls = <<>>
    /\ nextCall = 0
    /\ store \in InitialStores
    /\ nextId = Len(store) + 1
    /\ confirmed = <<>>
    /\ dialog = "none"

Next ==
    \/ Mount
    \/ \E c \in DOMAIN calls : ServerList(c)
    \/ \E c \in DOMAIN calls : ServerCreate(c)
    \/ \E c \in DOMAIN calls : ServerParse(c)
    \/ \E c \in DOMAIN calls : ServerUpdate(c)
    \/ \E c \in DOMAIN calls : ServerDelete(c)
    \/ \E c \in DOMAIN calls, llm_service \in {"available", "unavailable"} :
          ServerHealth(c, llm_service)
    \/ \E c \in DOMAIN calls : CallFails(c)
    \/ \E c \in DOMAIN calls : CheckHealthDone(c)
    \/ \E c \in DOMAIN calls : LoadTasksResolved(c)
    \/ \E c \in DOMAIN calls : LoadTasksRejected(c)
    \/ OpenAddForm
    \/ \E title \in Texts : SubmitCreate(title)
    \/ \E c \in DOMAIN calls : CreateTaskResolved(c)
    \/ \E c \in DOMAIN calls : CreateTaskRejected(c)
    \/ \E text \in Texts : SubmitNaturalLanguage(text)
    \/ \E c \in DOMAIN calls : NaturalLanguageResolved(c)
    \/ \E c \in DOMAIN calls : NaturalLanguageRejected(c)
    \/ \E id \in TaskIds : ToggleTask(id)
    \/ \E c \in DOMAIN calls : ToggleTaskResolved(c)
    \/ \E c \in DOMAIN calls : ToggleTaskRejected(c)
    \/ \E id \in TaskIds, userConfirms \in BOOLEAN : DeleteTask(id, userConfirms)
    \/ \E c \in DOMAIN calls : DeleteTaskResolved(c)
    \/ \E c \in DOMAIN calls : DeleteTaskRejected(c)
    \/ \E task \in Range(displayed) : EditTask(task)
    \/ \E title \in Texts : SubmitUpdate(title)
    \/ \E c \in DOMAIN calls : UpdateTaskResolved(c)
    \/ \E c \in DOMAIN calls : UpdateTaskRejected(c)
    \/ CancelEdit
    \/ DismissError

Spec == Init /\ [][Next]_vars

\* ------------------------------------------------- every call succeeds
\* Next for a session in which the transport never fails and the service
\* refuses no request: no call ever settles as a failure
ReliableNext == Next /\ \A c \in DOMAIN calls' : calls'[c].transport # "failure"

ReliableSpec == Init /\ [][ReliableNext]_vars

\* ------------------------------------------------------------- scheduling
\* the step stays within MaxLiveCalls calls caused by the user
LiveCanIssue == nextCall' <= 2 + MaxLiveCalls

\* Next for a session in which the user dispatches at most MaxLiveCalls intents
\* that issue a call
LiveNext ==
    \/ Mount
    \/ \E c \in DOMAIN calls : ServerList(c)
    \/ \E c \in DOMAIN calls : ServerCreate(c)
    \/ \E c \in DOMAIN calls : ServerParse(c)
    \/ \E c \in DOMAIN calls : ServerUpdate(c)
    \/ \E c \in DOMAIN calls : ServerDelete(c)
    \/ \E c \in DOMAIN calls, llm_service \in {"available", "unavailable"} :
          ServerHealth(c, llm_service)
    \/ \E c \in DOMAIN calls : CallFails(c)
    \/ \E c \in DOMAIN calls : CheckHealthDone(c)
    \/ \E c \in DOMAIN calls : LoadTasksResolved(c)
    \/ \E c \in DOMAIN calls : LoadTasksRejected(c)
    \/ OpenAddForm
    \/ \E title \in Texts : SubmitCreate(title) /\ LiveCanIssue
    \/ \E c \in DOMAIN calls : CreateTaskResolved(c)
    \/ \E c \in DOMAIN calls : CreateTaskRejected(c)
    \/ \E text \in Texts : SubmitNaturalLanguage(text) /\ LiveCanIssue
    \/ \E c \in DOMAIN calls : NaturalLanguageResolved(c)
    \/ \E c \in DOMAIN calls : NaturalLanguageRejected(c)
    \/ \E id \in TaskIds : ToggleTask(id) /\ LiveCanIssue
    \/ \E c \in DOMAIN calls : ToggleTaskResolved(c)
    \/ \E c \in DOMAIN calls : ToggleTaskRejected(c)
    \/ \E id \in TaskIds, userConfirms \in BOOLEAN :
          DeleteTask(id, userConfirms) /\ LiveCanIssue
    \/ \E c \in DOMAIN calls : DeleteTaskResolved(c)
    \/ \E c \in DOMAIN calls : DeleteTaskRejected(c)
    \/ \E task \in Range(displayed) : EditTask(task)
    \/ \E title \in Texts : SubmitUpdate(title) /\ LiveCanIssue
    \/ \E c \in DOMAIN calls : UpdateTaskResolved(c)
    \/ \E c \in DOMAIN calls : UpdateTaskRejected(c)
    \/ CancelEdit
    \/ DismissError

\* the issue numbers a call of such a session can carry
CallNumbers == 1..(2 + MaxLiveCalls)

\* call c resolves or fails: the service answers it, or the transport gives up
\* (the axios instance times out after 10 s)
Settles(c) ==
    \/ ServerList(c)
    \/ ServerCreate(c)
    \/ ServerParse(c)
    \/ ServerUpdate(c)
    \/ ServerDelete(c)
    \/ \E llm_service \in {"available", "unavailable"} : ServerHealth(c, llm_service)
    \/ CallFails(c)

\* the continuation awaiting call c runs once the call has settled
Continues(c) ==
    \/ CheckHealthDone(c)
    \/ LoadTasksResolved(c)
    \/ LoadTasksRejected(c)
    \/ CreateTaskResolved(c)
    \/ CreateTaskRejected(c)
    \/ NaturalLanguageResolved(c)
    \/ NaturalLanguageRejected(c)
    \/ ToggleTaskResolved(c)
    \/ ToggleTaskRejected(c)
    \/ DeleteTaskResolved(c)
    \/ DeleteTaskRejected(c)
    \/ UpdateTaskResolved(c)
    \/ UpdateTaskRejected(c)

\* React runs the mount effect, every call resolves or fails, and the event
\* loop runs the continuation of every settled call; the user owes nothing
Fairness ==
    /\ WF_vars(Mount)
    /\ \A c \in CallNumbers : WF_vars(Settles(c))
    /\ \A c \in CallNumbers : WF_vars(Continues(c))

FairSpec == Init /\ [][LiveNext]_vars /\ Fairness

\* as Fairness, but owing nothing to the health probe: call 2 may stay in
\* flight, or settled and unprocessed, for ever
FairnessButHealth ==
    /\ WF_vars(Mount)
    /\ \A c \in CallNumbers \ {2} : WF_vars(Settles(c))
    /\ \A c \in CallNumbers \ {2} : WF_vars(Continues(c))

LoadFairSpec == Init /\ [][LiveNext]_vars /\ FairnessButHealth

\* ------------------------------------------------- TaskList on its own
\* collections TaskList can be handed: one entry per id, any completion flags,
\* any creation instants (ties included), in any order of the instants
SortInputs ==
    UNION {{[i \in 1..n |-> [id |-> i, title |-> <<"a">>, completed |-> f[i].completed,
                             created_at |-> f[i].created_at]] :
               f \in [1..n -> [completed : BOOLEAN, created_at : 0..MaxSortTime]]} :
           n \in 0..MaxSortLen}

\* a session whose load has completed with the collection ts, not yet rendered
InitSort ==
    /\ mounted = TRUE
    /\ tasks \in SortInputs
    /\ isLoading = FALSE
    /\ error = NoError
    /\ editingTask = NoTask
    /\ isProcessingNL = FALSE
    /\ showAddForm = FALSE
    /\ isLLMAvailable = TRUE
    /\ displayed = <<>>
    /\ calls = <<>>
    /\ nextCall = 2
    /\ store = tasks
    /\ nextId = MaxSortLen + 1
    /\ confirmed = [id \in Ids(tasks) |-> Find(tasks, id).completed]
    /\ dialog = "none"

\* TaskList's render: sortedTasks is computed from a copy of the tasks prop
TaskListRender ==
    /\ displayed' = SortedTasks(tasks)
    /\ tasks' = tasks
    /\ UNCHANGED <<mounted, isLoading, error, editingTask, isProcessingNL, showAddForm,
                   isLLMAvailable, calls, nextCall, store, nextId, confirmed, dialog>>

NextSort == TaskListRender

SortSpec == InitSort /\ [][NextSort]_vars

\* ------------------------------------------- handleToggleTask on its own
\* a session whose load has completed and is rendered, with or without an
\* error on display from an earlier create-from-text failure
InitLoaded ==
    /\ mounted = TRUE
    /\ tasks \in SortInputs
    /\ isLoading = FALSE
    /\ error \in {NoError, NLError}
    /\ editingTask = NoTask
    /\ isProcessingNL = FALSE
    /\ showAddForm = FALSE
    /\ isLLMAvailable = TRUE
    /\ displayed = SortedTasks(tasks)
    /\ calls = <<>>
    /\ nextCall = 2
    /\ store = tasks
    /\ nextId = MaxSortLen + 1
    /\ confirmed = [id \in Ids(tasks) |-> Find(tasks, id).completed]
    /\ dialog = "none"

\* handleToggleTask is called with any id, in the collection or not
NextToggle == \E id \in TaskIds : ToggleTask(id)

ToggleSpec == InitLoaded /\ [][NextToggle]_vars

\* --------------------------------------------------------------- claims
MutatingKinds == {"createTask", "createTaskFromNaturalLanguage", "updateTask", "deleteTask"}

\* the continuation that runs in this step consumes call c
Handles(c) == c \in DOMAIN calls /\ c \notin DOMAIN calls'

\* C1: the step in which a handler processes a rejected create, create-from-text,
\* update (toggle or edit-save) or delete call leaves the task collection as it was.
C1_FailedCallKeepsTasks ==
    [][\A c \in DOMAIN calls :
          (Handles(c) /\ calls[c].status = "rejected" /\ calls[c].kind \in MutatingKinds)
              => tasks' = tasks]_vars

\* a failure has been processed while the collection held tasks
C1_Witness ==
    /\ tasks # <<>>
    /\ error \in {CreateError, NLError, UpdateError, DeleteError}

\* C2: the collection changes only in a step that processes a resolved getTasks,
\* createTask, createTaskFromNaturalLanguage, updateTask or deleteTask call, and
\* every entry the collection did not hold before that step is an entry of the
\* response processed in it.
C2_ChangesComeFromResponse ==
    [][tasks' # tasks =>
          \E c \in DOMAIN calls :
              /\ Handles(c)
              /\ calls[c].status = "resolved"
              /\ calls[c].kind \in MutatingKinds \cup {"getTasks"}
              /\ \A i \in DOMAIN tasks' :
                    tasks'[i] \in Range(tasks) \cup Range(calls[c].resp)]_vars

\* C3: a task of the collection leaves it only in the step that processes a
\* resolved deleteTask call for that task's id.
C3_LeavesOnlyByDelete ==
    [][\A i \in DOMAIN tasks :
          tasks[i].id \notin Ids(tasks') =>
              \E c \in DOMAIN calls :
                  /\ Handles(c)
                  /\ calls[c].status = "resolved"
                  /\ calls[c].kind = "deleteTask"
                  /\ calls[c].id = tasks[i].id]_vars

\* C4: when a resolved updateTask or deleteTask call for id X is processed, the
\* entries with another id are exactly those the collection held immediately
\* before, and an updated X is the returned Task.
C4_AppliedToCurrentTasks ==
    [][\A c \in DOMAIN calls :
          (Handles(c) /\ calls[c].status = "resolved"
                      /\ calls[c].kind \in {"updateTask", "deleteTask"})
              => /\ FilterOut(tasks', calls[c].id) = FilterOut(tasks, calls[c].id)
                 /\ \A i \in DOMAIN tasks' :
                       tasks'[i].id = calls[c].id =>
                           /\ calls[c].kind = "updateTask"
                           /\ tasks'[i] = calls[c].resp[1]]_vars

\* C5: every task of the collection shows the completion value of the last
\* successful response (list, create or update) processed for its id.
C5_ShowsLastConfirmed ==
    \A i \in DOMAIN tasks :
        /\ tasks[i].id \in DOMAIN confirmed
        /\ tasks[i].completed = confirmed[tasks[i].id]

\* C6: the collection holds at most one entry per task id.
C6_OneEntryPerId ==
    \A i, j \in DOMAIN tasks : tasks[i].id = tasks[j].id => i = j

\* C7: the step that processes a resolved createTask or
\* createTaskFromNaturalLanguage call makes the collection the returned Task
\* followed by the collection as it was; for createTask it also hides the form.
C7_CreatedTaskPrepended ==
    [][\A c \in DOMAIN calls :
          (Handles(c) /\ calls[c].status = "resolved"
                      /\ calls[c].kind \in {"createTask", "createTaskFromNaturalLanguage"})
              => /\ tasks' = <<calls[c].resp[1]>> \o tasks
                 /\ calls[c].kind = "createTask" => ~showAddForm']_vars

\* a task created in this session heads a collection of several tasks
C7_Witness ==
    /\ Len(tasks) >= 2
    /\ tasks[1].id > MaxInitTasks
    /\ \A i \in 2..Len(tasks) : tasks[i].id # tasks[1].id

\* C8: every createTask call issued carries a title that is not empty and has no
\* surrounding whitespace, so a blank title is never sent.
C8_CreateTitleTrimmed ==
    \A c \in DOMAIN calls :
        calls[c].kind = "createTask" =>
            /\ calls[c].body.title # <<>>
            /\ calls[c].body.title[1] # " "
            /\ calls[c].body.title[Len(calls[c].body.title)] # " "

\* the form is open in create mode, where a blank title can be submitted, and a
\* createTask call issued from it is in flight
C8_Witness ==
    /\ showAddForm
    /\ editingTask = NoTask
    /\ \E c \in DOMAIN calls : calls[c].kind = "createTask" /\ calls[c].status = "pending"

\* C10: checkHealth never rejects; when its transport failed it resolved to the
\* degraded status, and the step that processes such a probe clears the
\* availability flag.
C10_HealthNeverRaises ==
    [][\A c \in DOMAIN calls :
          calls[c].kind = "checkHealth" =>
              /\ calls[c].status # "rejected"
              /\ calls[c].transport = "failure" =>
                    /\ calls[c].status = "resolved"
                    /\ calls[c].health = DegradedHealth
                    /\ Handles(c) => ~isLLMAvailable']_vars

\* the gateway has absorbed a failed probe
C10_Witness ==
    \E c \in DOMAIN calls :
        /\ calls[c].kind = "checkHealth"
        /\ calls[c].transport = "failure"
        /\ calls[c].status = "resolved"

\* number of entries of s equal to t
Count(s, t) == Cardinality({i \in DOMAIN s : s[i] = t})

IsPermutation(s, t) ==
    /\ Len(s) = Len(t)
    /\ \A x \in Range(s) \cup Range(t) : Count(s, x) = Count(t, x)

\* incomplete before completed, and newest first within each group
Ordered(s) ==
    \A i, j \in DOMAIN s :
        i < j =>
            /\ ~(s[i].completed /\ ~s[j].completed)
            /\ s[i].completed = s[j].completed => s[i].created_at >= s[j].created_at

\* C9: the displayed list is a permutation of the collection in which incomplete
\* tasks precede completed ones and creation instants do not increase within a
\* group, and computing it leaves the collection as it was.
C9_DisplayedOrder ==
    [][/\ tasks' = tasks
       /\ IsPermutation(displayed', tasks)
       /\ Ordered(displayed')]_vars

\* the sort has rearranged a collection holding both groups and two tasks of
\* one group with different creation instants
C9_Witness ==
    /\ displayed # <<>>
    /\ displayed # tasks
    /\ \E i, j \in DOMAIN displayed :
          /\ displayed[i].completed # displayed[j].completed
    /\ \E i, j \in DOMAIN displayed :
          /\ displayed[i].completed = displayed[j].completed
          /\ displayed[i].created_at # displayed[j].created_at

\* C11: the step that processes a health-probe outcome, success or failure,
\* leaves error, the task collection, both loading flags, the edit target and
\* the form flag as they were; and the initial list call is issued and its
\* outcome processed even in runs where the health probe never resolves.
C11_HealthOnlySetsFlag ==
    /\ [][\A c \in DOMAIN calls :
            (Handles(c) /\ calls[c].kind = "checkHealth")
                => UNCHANGED <<tasks, error, isLoading, isProcessingNL, editingTask,
                               showAddForm>>]_vars
    /\ <>(/\ mounted
          /\ ~isLoading
          /\ \A c \in DOMAIN calls : calls[c].kind # "getTasks")

\* the load has completed with tasks and no error while the health probe is
\* still unanswered
C11_Witness ==
    /\ ~isLoading
    /\ tasks # <<>>
    /\ error = NoError
    /\ \E c \in DOMAIN calls : Pending(c, "checkHealth")

\* C12: when every call resolves or fails and every continuation runs, the
\* loading flag, true at session start, eventually becomes false, and a step
\* taken with the flag false leaves it false.
C12_LoadingEnds ==
    /\ <>(~isLoading)
    /\ [][~isLoading => ~isLoading']_vars

\* the load has failed and the flag is down
C12_Witness ==
    /\ mounted
    /\ ~isLoading
    /\ error = LoadError

\* the step issues a call of the given kind
Issues(kind) ==
    \E c \in DOMAIN calls' \ DOMAIN calls : calls'[c].kind = kind

\* C13: the step that issues a create-from-text call raises isProcessingNL, the
\* step that processes its outcome, resolved or rejected, lowers it, and when
\* every call resolves or fails every state with isProcessingNL raised is
\* followed by one with it lowered.
C13_NLLoadingClears ==
    /\ [][Issues("createTaskFromNaturalLanguage") => isProcessingNL']_vars
    /\ [][\A c \in DOMAIN calls :
            (Handles(c) /\ calls[c].kind = "createTaskFromNaturalLanguage")
                => ~isProcessingNL']_vars
    /\ (isProcessingNL ~> ~isProcessingNL)

\* a create-from-text call has failed and the flag is down again
C13_Witness ==
    /\ error = NLError
    /\ ~isProcessingNL

\* the intent class a call belongs to: toggle and edit-save are one class
IntentClass(kind) ==
    CASE kind = "getTasks" -> "load"
      [] kind = "createTask" -> "create"
      [] kind = "createTaskFromNaturalLanguage" -> "natural-language"
      [] kind = "updateTask" -> "update"
      [] kind = "deleteTask" -> "delete"
      [] OTHER -> "health"

\* the message each intent class reports
ClassMessage ==
    [load |-> LoadError, create |-> CreateError, update |-> UpdateError,
     delete |-> DeleteError] @@ ("natural-language" :> NLError)

\* C14: the step that processes a rejected call other than the health probe
\* sets error to the message of the call's intent class, and the messages of
\* the five classes differ from one another and from the value of no error.
C14_FailureSetsClassMessage ==
    [][/\ \A c \in DOMAIN calls :
             (Handles(c) /\ calls[c].status = "rejected" /\ calls[c].kind # "checkHealth")
                 => error' = ClassMessage[IntentClass(calls[c].kind)]
       /\ \A a, b \in DOMAIN ClassMessage : a # b => ClassMessage[a] # ClassMessage[b]
       /\ \A a \in DOMAIN ClassMessage : ClassMessage[a] # NoError]_vars

\* a delete has failed, its outcome has been processed and the task is still there
C14_Witness ==
    /\ error = DeleteError
    /\ tasks # <<>>
    /\ \A c \in DOMAIN calls : calls[c].kind # "deleteTask"

\* the kinds of call an intent of the user issues
IntentKinds == MutatingKinds

\* C15 as stated: while error holds the message of one intent class, a step
\* that issues a call of another class, or processes a resolved call of another
\* class, leaves error as it is.
C15_OtherClassKeepsError ==
    [][\A k \in IntentKinds \cup {"getTasks"} :
          (/\ error # NoError
           /\ ClassMessage[IntentClass(k)] # error
           /\ \/ Issues(k)
              \/ \E c \in DOMAIN calls :
                    Handles(c) /\ calls[c].status = "resolved" /\ calls[c].kind = k)
              => error' = error]_vars

\* C15, amended: the step that issues the call of an intent (manual create,
\* create-from-text, toggle, delete, edit-save) clears error whichever class set
\* it, and the step that processes a resolved call of any kind leaves error as
\* it is.
C15_IssueClearsSuccessKeeps ==
    [][/\ \A k \in IntentKinds : Issues(k) => error' = NoError
       /\ \A c \in DOMAIN calls :
             (Handles(c) /\ calls[c].status = "resolved") => error' = error]_vars

\* a create-from-text failure is on display while a toggle, issued before that
\* failure was processed, has resolved and awaits processing
C15_Witness ==
    /\ error = NLError
    /\ \E c \in DOMAIN calls : Settled(c, "updateTask", "resolved")

\* C16 as stated: whenever an edit target is set, it equals the collection's
\* current entry for its id.
C16_EditTargetIsCurrent ==
    editingTask # NoTask => Find(tasks, editingTask.id) = editingTask

\* C16, amended: a step that changes the edit target either clears it or sets
\* it to an entry the collection holds at that moment; in every other step,
\* the processing of a toggle or update of that task included, it keeps the
\* value it was given when the edit began.
C16_EditTargetIsCopy ==
    [][editingTask' # editingTask
          => (editingTask' = NoTask \/ editingTask' \in Range(tasks))]_vars

\* the task under edit has been toggled since the edit began: the collection's
\* entry for its id differs from the edit target
C16_Witness ==
    /\ editingTask # NoTask
    /\ editingTask.id \in Ids(tasks)
    /\ Find(tasks, editingTask.id) # editingTask

C18_DeleteNeedsConfirmation ==
    [][/\ Issues("deleteTask") => dialog' = "accepted"
       /\ dialog' = "declined"
             => UNCHANGED <<calls, nextCall, tasks, error, isLoading, isProcessingNL,
                            showAddForm, isLLMAvailable, editingTask, displayed>>]_vars

\* the user has just declined to delete a displayed task while an error was on
\* display
C18_Witness ==
    /\ dialog = "declined"
    /\ tasks # <<>>
    /\ error # NoError

\* C19 as stated: the step that processes the failure of the list call sets the
\* load-failure message, lowers the loading flag and leaves the collection
\* empty.
C19_FailedLoadLeavesEmpty ==
    [][\A c \in DOMAIN calls :
          (Handles(c) /\ calls[c].kind = "getTasks" /\ calls[c].status = "rejected")
              => (error' = LoadError /\ ~isLoading' /\ tasks' = <<>>)]_vars

\* C19, amended: that step sets the load-failure message, lowers the loading
\* flag and leaves the collection as it was, which is empty unless a create
\* dispatched during the load has completed.
C19_FailedLoadKeepsTasks ==
    [][\A c \in DOMAIN calls :
          (Handles(c) /\ calls[c].kind = "getTasks" /\ calls[c].status = "rejected")
              => (error' = LoadError /\ ~isLoading' /\ tasks' = tasks)]_vars

\* the load has failed and the collection holds a task created meanwhile
C19_Witness ==
    /\ error = LoadError
    /\ ~isLoading
    /\ tasks # <<>>
    /\ \A c \in DOMAIN calls : calls[c].kind = "checkHealth"

IsToggle(cs, c) == cs[c].kind = "updateTask" /\ cs[c].edit = NoTask

\* C21: a toggle request issued for id X carries the negation of the completion
\* flag X has in the collection in the issuing step; two toggle requests of one
\* task issued against the same entry carry the same value; and the step that
\* processes a resolved toggle leaves X with the negation of the flag X had
\* when that toggle was issued, so a second success does not flip X back.
C21_ToggleCarriesNegation ==
    [][/\ \A c \in DOMAIN calls' \ DOMAIN calls :
             IsToggle(calls', c)
                 => /\ calls'[c].id \in Ids(tasks)
                    /\ calls'[c].body.completed = ~Find(tasks, calls'[c].id).completed
       /\ \A c, d \in DOMAIN calls' :
             (/\ IsToggle(calls', c) /\ IsToggle(calls', d)
              /\ calls'[c].id = calls'[d].id
              /\ Find(calls'[c].snap, calls'[c].id) = Find(calls'[d].snap, calls'[d].id))
                 => calls'[c].body = calls'[d].body
       /\ \A c \in DOMAIN calls :
             (Handles(c) /\ IsToggle(calls, c) /\ calls[c].status = "resolved")
                 => Find(tasks', calls[c].id).completed
                        = ~Find(calls[c].snap, calls[c].id).completed]_vars

\* two toggles of one task were issued before the first response was processed;
\* the first success has been applied and the second, carrying the same value,
\* has resolved and awaits processing
C21_Witness ==
    \E c \in DOMAIN calls :
        /\ IsToggle(calls, c)
        /\ calls[c].status = "resolved"
        /\ calls[c].id \in Ids(tasks)
        /\ Find(tasks, calls[c].id).completed = calls[c].body.completed
        /\ Find(calls[c].snap, calls[c].id).completed # calls[c].body.completed
        /\ \A d \in DOMAIN calls : d = c \/ calls[d].kind = "checkHealth"

\* C22: every call of handleToggleTask that changes anything at all issues a
\* toggle request for an id the collection holds; called with an id the
\* collection does not hold it issues no call and leaves the collection, error,
\* the flags and the edit target as they were.
C22_UnknownIdIsNoOp ==
    [][/\ \E c \in DOMAIN calls' \ DOMAIN calls :
             IsToggle(calls', c) /\ calls'[c].id \in Ids(tasks)
       /\ \A c \in DOMAIN calls' : calls'[c].id \in Ids(tasks)]_vars

\* handleToggleTask has issued a call for a known id and cleared the error,
\* and an id the collection does not hold can still be passed to it
C22_Witness ==
    /\ tasks # <<>>
    /\ error = NoError
    /\ calls # <<>>
    /\ \E id \in TaskIds : id \notin Ids(tasks)

\* C23: the step that processes a rejected manual create or a rejected
\* edit-save sets the error of its class and leaves the form-visibility flag
\* and the edit target as they were.
C23_FailureKeepsForm ==
    [][\A c \in DOMAIN calls :
          (/\ Handles(c)
           /\ calls[c].status = "rejected"
           /\ \/ calls[c].kind = "createTask"
              \/ calls[c].kind = "updateTask" /\ calls[c].edit # NoTask)
              => /\ error' = ClassMessage[IntentClass(calls[c].kind)]
                 /\ showAddForm' = showAddForm
                 /\ editingTask' = editingTask]_vars

\* an edit-save has failed and been processed: the form is open on the task
\* whose save failed
C23_Witness ==
    /\ error = UpdateError
    /\ showAddForm
    /\ editingTask # NoTask
    /\ \A c \in DOMAIN calls : calls[c].kind = "checkHealth"
    /\ nextCall = 3

\* C24: a create-from-text call is issued only in a step that starts with no
\* create-from-text request in progress, and the text it carries is not empty,
\* not whitespace only, and has no whitespace at either end.
C24_TextTrimmedNonBlank ==
    [][\A c \in DOMAIN calls' \ DOMAIN calls :
          calls'[c].kind = "createTaskFromNaturalLanguage"
              => /\ ~isProcessingNL
                 /\ Trim(calls'[c].body.text) # <<>>
                 /\ calls'[c].body.text = Trim(calls'[c].body.text)]_vars

\* a create-from-text call, the last the user can cause, is in flight and
\* carries text without surrounding whitespace
C24_Witness ==
    /\ isProcessingNL
    /\ \E c \in DOMAIN calls :
          /\ Pending(c, "createTaskFromNaturalLanguage")
          /\ calls[c].body.text = <<"a">>
          /\ c = 2 + MaxCalls

\* C25 as stated, for sessions in which every call succeeds: whenever the
\* session has mounted and no call is in flight, the collection holds exactly
\* the tasks of the remote store, each once, with the same field values.
C25_ConvergesWithServer ==
    (mounted /\ calls = <<>>)
        => (Range(tasks) = Range(store) /\ Len(tasks) = Len(store))

\* a successful deleteTask response for id has been processed: the service has
\* assigned the id, stores it no longer, and no resolved delete of it awaits
\* its continuation (the service never reuses an id and deletes one only once)
DeleteProcessed(id) ==
    /\ id < nextId
    /\ id \notin Ids(store)
    /\ \A c \in DOMAIN calls :
          ~(calls[c].kind = "deleteTask" /\ calls[c].id = id /\ calls[c].status = "resolved")

\* C26 as stated: no task whose successful delete response has been processed
\* is in the collection.
C26_DeletedStaysDeleted ==
    \A id \in TaskIds : DeleteProcessed(id) => id \notin Ids(tasks)

\* C27 as stated: whenever an edit target is set, the collection holds a task
\* with the edit target's id.
C27_EditTargetInCollection ==
    editingTask # NoTask => editingTask.id \in Ids(tasks)

\* C28 as stated: whenever an edit target is set, the form is visible.
C28_EditTargetShowsForm ==
    editingTask # NoTask => showAddForm

\* C29 as stated: the step that processes the success of an edit-save of one
\* task while another task is the edit target leaves the edit target and the
\* form-visibility flag as they were.
C29_SaveClosesOwnSession ==
    [][\A c \in DOMAIN calls :
          (/\ Handles(c)
           /\ calls[c].kind = "updateTask"
           /\ calls[c].edit # NoTask
           /\ calls[c].status = "resolved"
           /\ editingTask # NoTask
           /\ editingTask.id # calls[c].edit.id)
              => (editingTask' = editingTask /\ showAddForm' = showAddForm)]_vars

\* the create-from-text calls in flight: issued and not yet processed
NLInFlight == {c \in DOMAIN calls : calls[c].kind = "createTaskFromNaturalLanguage"}

\* C30: at most one create-from-text call is in flight, and isProcessingNL is
\* true exactly when one is.
C30_OneNLRequest ==
    /\ Cardinality(NLInFlight) <= 1
    /\ isProcessingNL <=> NLInFlight # {}

\* a second create-from-text call is in flight after the first has been
\* processed successfully
C30_Witness ==
    /\ isProcessingNL
    /\ NLInFlight = {2 + MaxCalls}
    /\ \E i \in DOMAIN tasks : tasks[i].id > MaxInitTasks

====
